---- MODULE Spec2Model ----
(***************************************************************************)
(* A model of the inari-wasm interval kernel (src/src/*.rs).               *)
(*                                                                         *)
(* An f64 is modelled as a record [k, n, d, z]: k is "nan", "ninf", "pinf" *)
(* or "fin"; a finite value is the reduced fraction n/d (d > 0); z is the  *)
(* sign bit of a zero (-0.0 has z = TRUE).  Arithmetic on finite values is *)
(* exact (no rounding, no overflow); the IEEE-754 rules for NaN, the       *)
(* infinities and the signed zeros are kept.  Finite values range over the *)
(* fractions with |n| <= MaxNum and d <= MaxDen; an operation whose result *)
(* leaves that range is not taken.                                         *)
(***************************************************************************)
EXTENDS Integers, FiniteSets, Sequences, TLC

\* the finite f64 values of the model: n/d with |n| <= MaxNum, 1 <= d <= MaxDen
MaxNum == 2

MaxDen == 2

\* the exponents handed to powi: -MaxExp .. MaxExp
MaxExp == 3

\* the bases handed to pow: 2^s for -MaxLog <= s <= MaxLog
MaxLog == 1

\* the angles handed to sin, cos and tan: Tick(t) for |t| <= MaxTick
MaxTick == 16

VARIABLES x, y, op, r, st, ans, h, arg, err

vars == <<x, y, op, r, st, ans, h, arg, err>>

-----------------------------------------------------------------------------
(* f64 values *)

RECURSIVE GCD(_, _)
GCD(m, n) == IF n = 0 THEN m ELSE GCD(n, m % n)

IAbs(n) == IF n < 0 THEN -n ELSE n

NAN == [k |-> "nan", n |-> 0, d |-> 1, z |-> FALSE]

INFINITY == [k |-> "pinf", n |-> 0, d |-> 1, z |-> FALSE]

NEG_INFINITY == [k |-> "ninf", n |-> 0, d |-> 1, z |-> FALSE]

\* the finite value n/d (d > 0), reduced; a zero made here is +0.0
Fin(n, d) ==
    LET g == GCD(IAbs(n), d)
    IN  [k |-> "fin", n |-> n \div g, d |-> d \div g, z |-> FALSE]

\* a zero with the given sign bit
Zero(neg) == [k |-> "fin", n |-> 0, d |-> 1, z |-> neg]

is_nan(v) == v.k = "nan"

IsZero(v) == v.k = "fin" /\ v.n = 0

is_finite(v) == v.k = "fin"

\* the sign bit of a non-NaN value
SignBit(v) ==
    CASE v.k = "ninf" -> TRUE
      [] v.k = "pinf" -> FALSE
      [] v.k = "fin"  -> IF v.n = 0 THEN v.z ELSE v.n < 0
      [] OTHER        -> FALSE

\* IEEE ==: false on NaN, and -0.0 == +0.0
FEq(v, w) ==
    /\ ~is_nan(v) /\ ~is_nan(w)
    /\ v.k = w.k
    /\ v.k = "fin" => (v.n = w.n /\ v.d = w.d)

\* IEEE <: false on NaN
FLt(v, w) ==
    /\ ~is_nan(v) /\ ~is_nan(w)
    /\ CASE v.k = "ninf" -> w.k # "ninf"
         [] v.k = "pinf" -> FALSE
         [] OTHER        -> \/ w.k = "pinf"
                            \/ w.k = "fin" /\ v.n * w.d < w.n * v.d

FLe(v, w) == FLt(v, w) \/ FEq(v, w)

FGt(v, w) == FLt(w, v)

FNe(v, w) == ~FEq(v, w)

\* unary minus: flips the sign bit
FNeg(v) ==
    CASE v.k = "nan"  -> NAN
      [] v.k = "pinf" -> NEG_INFINITY
      [] v.k = "ninf" -> INFINITY
      [] OTHER        -> IF v.n = 0 THEN Zero(~v.z) ELSE Fin(-v.n, v.d)

\* v + w: inf + (-inf) is NaN; an exact zero sum is +0.0 unless both are -0.0
FAdd(v, w) ==
    CASE is_nan(v) \/ is_nan(w) -> NAN
      [] v.k # "fin" /\ w.k # "fin" -> IF v.k = w.k THEN v ELSE NAN
      [] v.k # "fin" -> v
      [] w.k # "fin" -> w
      [] OTHER ->
            LET s == v.n * w.d + w.n * v.d
            IN  IF s = 0
                THEN Zero(IsZero(v) /\ IsZero(w) /\ v.z /\ w.z)
                ELSE Fin(s, v.d * w.d)

FSub(v, w) == FAdd(v, FNeg(w))

\* v * w: 0 * inf is NaN; the sign bit of the result is the xor of the signs
FMul(v, w) ==
    CASE is_nan(v) \/ is_nan(w) -> NAN
      [] (IsZero(v) /\ w.k # "fin") \/ (IsZero(w) /\ v.k # "fin") -> NAN
      [] v.k # "fin" \/ w.k # "fin" ->
            IF SignBit(v) # SignBit(w) THEN NEG_INFINITY ELSE INFINITY
      [] OTHER ->
            IF v.n = 0 \/ w.n = 0
            THEN Zero(SignBit(v) # SignBit(w))
            ELSE Fin(v.n * w.n, v.d * w.d)

\* v / w: 0/0 and inf/inf are NaN; nonzero/0 is an infinity; finite/inf a zero
FDiv(v, w) ==
    CASE is_nan(v) \/ is_nan(w) -> NAN
      [] IsZero(v) /\ IsZero(w) -> NAN
      [] v.k # "fin" /\ w.k # "fin" -> NAN
      [] v.k # "fin" \/ IsZero(w) ->
            IF SignBit(v) # SignBit(w) THEN NEG_INFINITY ELSE INFINITY
      [] w.k # "fin" \/ IsZero(v) -> Zero(SignBit(v) # SignBit(w))
      [] OTHER ->
            IF w.n < 0
            THEN Fin(-(v.n * w.d), v.d * (-w.n))
            ELSE Fin(v.n * w.d, v.d * w.n)

\* f64::min: a NaN argument yields the other one; which of two equal
\* arguments (-0.0 and +0.0) is returned is unspecified: t decides
FMin(v, w, t) ==
    CASE is_nan(v) -> w
      [] is_nan(w) -> v
      [] FLt(v, w) -> v
      [] FLt(w, v) -> w
      [] OTHER     -> IF t THEN v ELSE w

FMax(v, w, t) ==
    CASE is_nan(v) -> w
      [] is_nan(w) -> v
      [] FLt(v, w) -> w
      [] FLt(w, v) -> v
      [] OTHER     -> IF t THEN v ELSE w

\* the finite values of the model, and all its f64 values
Finite ==
    { Fin(n, d) : n \in (-MaxNum)..MaxNum, d \in 1..MaxDen } \cup { Zero(TRUE) }

F64 == Finite \cup { NAN, INFINITY, NEG_INFINITY }

InRange(v) == v.k # "fin" \/ (IAbs(v.n) <= MaxNum /\ v.d <= MaxDen)

\* f64::floor, ceil, trunc and round (ties away from zero); a zero result
\* keeps the sign of the argument
Integral(i, v) == IF i = 0 THEN Zero(SignBit(v)) ELSE Fin(i, 1)

FFloor(v) == IF v.k # "fin" THEN v ELSE Integral(v.n \div v.d, v)

FCeil(v) == IF v.k # "fin" THEN v ELSE Integral(-((-v.n) \div v.d), v)

FTrunc(v) == IF v.k # "fin" \/ v.n >= 0 THEN FFloor(v) ELSE FCeil(v)

FRound(v) ==
    IF v.k # "fin" THEN v
    ELSE LET m == (2 * IAbs(v.n) + v.d) \div (2 * v.d)
         IN  Integral(IF v.n < 0 THEN -m ELSE m, v)

\* f64::to_bits: the sign bit and the magnitude; every NaN of the model
\* has one bit pattern
to_bits(v) == <<SignBit(v), v.k, IAbs(v.n), v.d>>

-----------------------------------------------------------------------------
(* Interval: interval.rs, constants.rs, boolean.rs *)

with_infsup_raw(a, b) == [inf |-> a, sup |-> b]

zero == [inf |-> Zero(FALSE), sup |-> Zero(FALSE)]

EMPTY == [inf |-> NAN, sup |-> NAN]

ENTIRE == [inf |-> NEG_INFINITY, sup |-> INFINITY]

is_empty(X) == is_nan(X.inf)

both_empty(X, Y) == is_empty(X) /\ is_empty(Y)

either_empty(X, Y) == is_empty(X) \/ is_empty(Y)

is_singleton(X) == FEq(X.inf, X.sup)

contains(X, v) == is_finite(v) /\ FLe(X.inf, v) /\ FLe(v, X.sup)

\* mutant: a strict comparison of the lower bounds
subset_le_strict(X, Y) == FLt(Y.inf, X.inf) /\ FLe(X.sup, Y.sup)

subset_le(X, Y) == FLe(Y.inf, X.inf) /\ FLe(X.sup, Y.sup)

subset(X, Y) == is_empty(X) \/ subset_le(X, Y)

eq(X, Y) == both_empty(X, Y) \/ (FEq(X.inf, Y.inf) /\ FEq(X.sup, Y.sup))

\* mutant: the second conjunct tests rhs for emptiness, as in strict_less
interior_rhs_empty(X, Y) ==
    LET l == \/ is_empty(X)
             \/ FLt(X.sup, Y.sup)
             \/ FEq(X.sup, INFINITY) /\ FEq(Y.sup, INFINITY)
        r0 == \/ is_empty(Y)
              \/ FLt(Y.inf, X.inf)
              \/ FEq(Y.inf, NEG_INFINITY) /\ FEq(X.inf, NEG_INFINITY)
    IN  l /\ r0

interior(X, Y) ==
    LET l == \/ is_empty(X)
             \/ FLt(X.sup, Y.sup)
             \/ FEq(X.sup, INFINITY) /\ FEq(Y.sup, INFINITY)
        r0 == \/ is_empty(X)
              \/ FLt(Y.inf, X.inf)
              \/ FEq(Y.inf, NEG_INFINITY) /\ FEq(X.inf, NEG_INFINITY)
    IN  l /\ r0

less(X, Y) ==
    LET l == is_empty(X) \/ FLe(X.sup, Y.sup)
        r0 == is_empty(Y) \/ FLe(X.inf, Y.inf)
    IN  l /\ r0

\* mutant: a strict comparison of the upper bound with the lower bound
precedes_strict(X, Y) == either_empty(X, Y) \/ FLt(X.sup, Y.inf)

precedes(X, Y) == either_empty(X, Y) \/ FLe(X.sup, Y.inf)

\* mutant: the second conjunct tests self for emptiness, as in interior
strict_less_self_empty(X, Y) ==
    LET l == \/ is_empty(X)
             \/ FLt(X.sup, Y.sup)
             \/ FEq(X.sup, INFINITY) /\ FEq(Y.sup, INFINITY)
        r0 == \/ is_empty(X)
              \/ FLt(X.inf, Y.inf)
              \/ FEq(X.inf, NEG_INFINITY) /\ FEq(Y.inf, NEG_INFINITY)
    IN  l /\ r0

strict_less(X, Y) ==
    LET l == \/ is_empty(X)
             \/ FLt(X.sup, Y.sup)
             \/ FEq(X.sup, INFINITY) /\ FEq(Y.sup, INFINITY)
        r0 == \/ is_empty(Y)
              \/ FLt(X.inf, Y.inf)
              \/ FEq(X.inf, NEG_INFINITY) /\ FEq(Y.inf, NEG_INFINITY)
    IN  l /\ r0

strict_precedes(X, Y) == either_empty(X, Y) \/ FLt(X.sup, Y.inf)

\* mutant: <= for < in the comparison of the bounds
disjoint_le(X, Y) ==
    either_empty(X, Y) \/ (FLe(X.sup, Y.inf) \/ FLe(Y.sup, X.inf))

disjoint(X, Y) ==
    either_empty(X, Y) \/ (FLt(X.sup, Y.inf) \/ FLt(Y.sup, X.inf))

\* what Hash::hash feeds to the hasher
hash(X) == <<to_bits(X.inf), to_bits(X.sup)>>

\* mutant: a lower bound of +oo is let through
try_from_ok_noInf(a, b) == FLe(a, b) /\ FNe(b, NEG_INFINITY)

\* TryFrom<(f64, f64)>: Ok(interval) or Err(UndefinedOperation)
try_from_ok(a, b) == FLe(a, b) /\ FNe(a, INFINITY) /\ FNe(b, NEG_INFINITY)

try_from(a, b) ==
    IF try_from_ok(a, b)
    THEN [ok |-> TRUE, val |-> with_infsup_raw(a, b), kind |-> "none"]
    ELSE [ok |-> FALSE, val |-> EMPTY, kind |-> "UndefinedOperation"]

-----------------------------------------------------------------------------
(* classify (module classify, not among the sources: taken from the        *)
(* specification, section 4.2)                                             *)

classify(X) ==
    LET a == X.inf
        b == X.sup
        z == Zero(FALSE)
    IN  IF is_empty(X) THEN "E"
        ELSE IF FEq(a, z) /\ FEq(b, z) THEN "Z"
        ELSE IF FLt(a, z) /\ FGt(b, z) THEN "M"
        ELSE IF FLt(a, z) /\ FEq(b, z) THEN "N0"
        ELSE IF FLt(b, z) THEN "N1"
        ELSE IF FEq(a, z) /\ FGt(b, z) THEN "P0"
        ELSE "P1"

classify2(X, Y) == <<classify(X), classify(Y)>>

N == {"N0", "N1"}

P == {"P0", "P1"}


-----------------------------------------------------------------------------
(* arith.rs *)

\* mutant: the bounds negated in place
neg_in_place(X) == [inf |-> FNeg(X.inf), sup |-> FNeg(X.sup)]

neg(X) == [inf |-> FNeg(X.sup), sup |-> FNeg(X.inf)]

add(X, Y) == [inf |-> FAdd(X.inf, Y.inf), sup |-> FAdd(X.sup, Y.sup)]

\* mutant: the bounds of the subtrahend not exchanged
sub_same_bounds(X, Y) == [inf |-> FSub(X.inf, Y.inf), sup |-> FSub(X.sup, Y.sup)]

sub(X, Y) == [inf |-> FSub(X.inf, Y.sup), sup |-> FSub(X.sup, Y.inf)]

\* mutant: the arm M_M without min and max
mul_M_M_noMinMax(a, b, c, d) == [inf |-> FMul(a, d), sup |-> FMul(b, d)]

\* the arm of the match for two mixed operands; the two products compared
\* by f64::min (f64::max) are nonzero, so no tie between zeros arises
mul_M_M(a, b, c, d) ==
    [inf |-> FMin(FMul(a, d), FMul(b, c), TRUE),
     sup |-> FMax(FMul(a, c), FMul(b, d), TRUE)]

\* mutant: E_Z and Z_E listed with the arm returning zero
mul_empty_arm_ZE(cl) == (cl[1] = "E" \/ cl[2] = "E") /\ cl[1] # "Z" /\ cl[2] # "Z"

\* the first arm of the match, E_E | E_M | ... | Z_E: an E in the pair
mul_empty_arm(cl) == cl[1] = "E" \/ cl[2] = "E"

\* the second arm, M_Z | N0_Z | ... | Z_Z: a Z in a pair the first arm left
mul_zero_arm(cl) == cl[1] = "Z" \/ cl[2] = "Z"

\* [a, b] * [c, d], by the class pair
mul(X, Y) ==
    LET a == X.inf
        b == X.sup
        c == Y.inf
        d == Y.sup
        cl == classify2(X, Y)
    IN  CASE mul_empty_arm(cl) -> EMPTY
          [] ~mul_empty_arm(cl) /\ mul_zero_arm(cl) -> zero
          [] cl = <<"M", "M">> -> mul_M_M(a, b, c, d)
          [] cl[1] = "M" /\ cl[2] \in N -> [inf |-> FMul(b, c), sup |-> FMul(a, c)]
          [] cl[1] = "M" /\ cl[2] \in P -> [inf |-> FMul(a, d), sup |-> FMul(b, d)]
          [] cl[1] \in N /\ cl[2] = "M" -> [inf |-> FMul(a, d), sup |-> FMul(a, c)]
          [] cl[1] \in N /\ cl[2] \in N -> [inf |-> FMul(b, d), sup |-> FMul(a, c)]
          [] cl[1] \in N /\ cl[2] \in P -> [inf |-> FMul(a, d), sup |-> FMul(b, c)]
          [] cl[1] \in P /\ cl[2] = "M" -> [inf |-> FMul(b, c), sup |-> FMul(b, d)]
          [] cl[1] \in P /\ cl[2] \in N -> [inf |-> FMul(b, c), sup |-> FMul(a, d)]
          [] cl[1] \in P /\ cl[2] \in P -> [inf |-> FMul(a, c), sup |-> FMul(b, d)]

\* the class pairs of the first three arms of the match
div_empty_arm(cl) == cl[1] = "E" \/ cl[2] = "E" \/ cl[2] = "Z"

\* mutant: Z_M listed with the arm returning ENTIRE
div_entire_arm_ZM(cl) ==
    cl \in {<<"M", "M">>, <<"M", "N0">>, <<"M", "P0">>, <<"N0", "M">>,
            <<"N1", "M">>, <<"P0", "M">>, <<"P1", "M">>, <<"Z", "M">>}

div_entire_arm(cl) ==
    cl \in {<<"M", "M">>, <<"M", "N0">>, <<"M", "P0">>, <<"N0", "M">>,
            <<"N1", "M">>, <<"P0", "M">>, <<"P1", "M">>}

div_zero_arm(cl) == cl[1] = "Z" /\ cl[2] \in {"M", "N0", "N1", "P0", "P1"}

\* mutant: the arm P0_N0 | P1_N0 with the upper bound of the numerator
div_P_N0_upper(a, b, c, d) == [inf |-> NEG_INFINITY, sup |-> FDiv(b, c)]

\* the arm P0_N0 | P1_N0
div_P_N0(a, b, c, d) == [inf |-> NEG_INFINITY, sup |-> FDiv(a, c)]

\* [a, b] / [c, d], by the class pair
div(X, Y) ==
    LET a == X.inf
        b == X.sup
        c == Y.inf
        d == Y.sup
        cl == classify2(X, Y)
    IN  CASE div_empty_arm(cl) -> EMPTY
          [] ~div_empty_arm(cl) /\ div_entire_arm(cl) -> ENTIRE
          [] ~div_empty_arm(cl) /\ ~div_entire_arm(cl) /\ div_zero_arm(cl) -> zero
          [] cl = <<"M", "N1">> -> [inf |-> FDiv(b, d), sup |-> FDiv(a, d)]
          [] cl = <<"M", "P1">> -> [inf |-> FDiv(a, c), sup |-> FDiv(b, c)]
          [] cl[1] \in N /\ cl[2] = "N0" -> [inf |-> FDiv(b, c), sup |-> INFINITY]
          [] cl[1] \in N /\ cl[2] = "N1" -> [inf |-> FDiv(b, c), sup |-> FDiv(a, d)]
          [] cl[1] \in N /\ cl[2] = "P0" -> [inf |-> NEG_INFINITY, sup |-> FDiv(b, d)]
          [] cl[1] \in N /\ cl[2] = "P1" -> [inf |-> FDiv(a, c), sup |-> FDiv(b, d)]
          [] cl[1] \in P /\ cl[2] = "N0" -> div_P_N0(a, b, c, d)
          [] cl[1] \in P /\ cl[2] = "N1" -> [inf |-> FDiv(b, d), sup |-> FDiv(a, c)]
          [] cl[1] \in P /\ cl[2] = "P0" -> [inf |-> FDiv(a, d), sup |-> INFINITY]
          [] cl[1] \in P /\ cl[2] = "P1" -> [inf |-> FDiv(a, d), sup |-> FDiv(b, c)]

\* impl_op_assign: *self = self.op(rhs)
add_assign(X, Y) == add(X, Y)

sub_assign(X, Y) == sub(X, Y)

mul_assign(X, Y) == mul(X, Y)

\* mutant: the operands of the division exchanged
div_assign_swapped(X, Y) == div(Y, X)

div_assign(X, Y) == div(X, Y)

-----------------------------------------------------------------------------
(* absmax.rs, set_op.rs, integer.rs; t1 and t2 decide the ties of f64::min *)
(* and f64::max between -0.0 and +0.0                                      *)

\* mutant: the arm M without the lower bound
abs_M_sup(X, t1) ==
    LET cl == classify(X)
    IN  CASE cl \in {"E", "P0", "P1", "Z"} -> X
          [] cl = "M" -> [inf |-> Zero(FALSE), sup |-> X.sup]
          [] cl \in N -> [inf |-> FNeg(X.sup), sup |-> FNeg(X.inf)]

abs(X, t1) ==
    LET cl == classify(X)
    IN  CASE cl \in {"E", "P0", "P1", "Z"} -> X
          [] cl = "M" -> [inf |-> Zero(FALSE), sup |-> FMax(FNeg(X.inf), X.sup, t1)]
          [] cl \in N -> [inf |-> FNeg(X.sup), sup |-> FNeg(X.inf)]

\* mutant: no test for an empty operand
max_unguarded(X, Y, t1, t2) ==
    [inf |-> FMax(X.inf, Y.inf, t1), sup |-> FMax(X.sup, Y.sup, t2)]

max(X, Y, t1, t2) ==
    IF either_empty(X, Y) THEN EMPTY
    ELSE [inf |-> FMax(X.inf, Y.inf, t1), sup |-> FMax(X.sup, Y.sup, t2)]

min(X, Y, t1, t2) ==
    IF either_empty(X, Y) THEN EMPTY
    ELSE [inf |-> FMin(X.inf, Y.inf, t1), sup |-> FMin(X.sup, Y.sup, t2)]

\* mutant: an empty self is returned instead of rhs
convex_hull_self(X, Y, t1, t2) ==
    IF is_empty(X) THEN X
    ELSE IF is_empty(Y) THEN X
    ELSE [inf |-> FMin(X.inf, Y.inf, t1), sup |-> FMax(X.sup, Y.sup, t2)]

convex_hull(X, Y, t1, t2) ==
    IF is_empty(X) THEN Y
    ELSE IF is_empty(Y) THEN X
    ELSE [inf |-> FMin(X.inf, Y.inf, t1), sup |-> FMax(X.sup, Y.sup, t2)]

\* mutant: >= for > in the comparison of the bounds after max and min
intersection_ge(X, Y, t1, t2) ==
    IF either_empty(X, Y) THEN EMPTY
    ELSE LET i == [inf |-> FMax(X.inf, Y.inf, t1), sup |-> FMin(X.sup, Y.sup, t2)]
         IN  IF FGt(i.inf, i.sup) \/ FEq(i.inf, i.sup) THEN EMPTY ELSE i

\* mutant: no comparison of the bounds after max and min
intersection_unchecked(X, Y, t1, t2) ==
    IF either_empty(X, Y) THEN EMPTY
    ELSE [inf |-> FMax(X.inf, Y.inf, t1), sup |-> FMin(X.sup, Y.sup, t2)]

intersection(X, Y, t1, t2) ==
    IF either_empty(X, Y) THEN EMPTY
    ELSE LET i == [inf |-> FMax(X.inf, Y.inf, t1), sup |-> FMin(X.sup, Y.sup, t2)]
         IN  IF FGt(i.inf, i.sup) THEN EMPTY ELSE i

ceil(X) == [inf |-> FCeil(X.inf), sup |-> FCeil(X.sup)]

floor(X) == [inf |-> FFloor(X.inf), sup |-> FFloor(X.sup)]

round(X) == [inf |-> FRound(X.inf), sup |-> FRound(X.sup)]

round_ties_to_even(X) == round(X)

\* mutant: f64::floor for f64::trunc
trunc_floor(X) == [inf |-> FFloor(X.inf), sup |-> FFloor(X.sup)]

trunc(X) == [inf |-> FTrunc(X.inf), sup |-> FTrunc(X.sup)]

sign(X) ==
    LET cl == classify(X)
    IN  CASE cl = "E" -> EMPTY
          [] cl = "M" -> [inf |-> Fin(-1, 1), sup |-> Fin(1, 1)]
          [] cl \in N -> [inf |-> Fin(-1, 1), sup |-> Fin(-1, 1)]
          [] cl \in P -> [inf |-> Fin(1, 1), sup |-> Fin(1, 1)]
          [] cl = "Z" -> [inf |-> Zero(FALSE), sup |-> Zero(FALSE)]

-----------------------------------------------------------------------------
(* overlap.rs *)

OverlappingState ==
    {"BothEmpty", "FirstEmpty", "SecondEmpty", "Before", "Meets", "Overlaps",
     "Starts", "ContainedBy", "Finishes", "Equal", "FinishedBy", "Contains",
     "StartedBy", "OverlappedBy", "MetBy", "After"}

\* mutant: StartedBy for Starts
overlap_b_lt_d_started(a, b, c) ==
    IF FLt(a, c)
    THEN IF FLt(b, c) THEN "Before"
         ELSE IF FEq(b, c) THEN "Meets"
         ELSE "Overlaps"
    ELSE IF FEq(a, c) THEN "StartedBy" ELSE "ContainedBy"

\* mutant: Finishes and FinishedBy exchanged
overlap_b_eq_d_swapped(a, c) ==
    IF FGt(a, c) THEN "FinishedBy"
    ELSE IF FEq(a, c) THEN "Equal"
    ELSE "Finishes"

\* the three branches of the comparison of b with d
overlap_b_lt_d(a, b, c) ==
    IF FLt(a, c)
    THEN IF FLt(b, c) THEN "Before"
         ELSE IF FEq(b, c) THEN "Meets"
         ELSE "Overlaps"
    ELSE IF FEq(a, c) THEN "Starts" ELSE "ContainedBy"

overlap_b_eq_d(a, c) ==
    IF FGt(a, c) THEN "Finishes"
    ELSE IF FEq(a, c) THEN "Equal"
    ELSE "FinishedBy"

\* mutant: no MetBy, a = d counts as After
overlap_b_gt_d_noMetBy(a, c, d) ==
    IF FLe(a, c)
    THEN IF FLt(a, c) THEN "Contains" ELSE "StartedBy"
    ELSE IF FLt(a, d) THEN "OverlappedBy"
         ELSE "After"

overlap_b_gt_d(a, c, d) ==
    IF FLe(a, c)
    THEN IF FLt(a, c) THEN "Contains" ELSE "StartedBy"
    ELSE IF FLt(a, d) THEN "OverlappedBy"
         ELSE IF FEq(a, d) THEN "MetBy"
         ELSE "After"

overlap(X, Y) ==
    LET a == X.inf
        b == X.sup
        c == Y.inf
        d == Y.sup
    IN  IF is_empty(X) THEN (IF is_empty(Y) THEN "BothEmpty" ELSE "FirstEmpty")
        ELSE IF is_empty(Y) THEN "SecondEmpty"
        ELSE IF FLt(b, d) THEN overlap_b_lt_d(a, b, c)
        ELSE IF FEq(b, d) THEN overlap_b_eq_d(a, c)
        ELSE overlap_b_gt_d(a, c, d)

-----------------------------------------------------------------------------
(* elementary.rs: angles                                                   *)
(*                                                                         *)
(* No f64 other than 0 is a multiple of pi/2, so an f64 angle other than 0 *)
(* lies strictly inside one quarter (j pi/2, (j+1) pi/2).  An angle is the *)
(* record Tick(4j + p): p = 1 is the least f64 above j pi/2, p = 3 the     *)
(* greatest f64 below (j+1) pi/2, p = 2 stands for the f64 values between  *)
(* them, and Tick(0) is 0.  The multiple k pi/2 itself sits at the         *)
(* position 4k, which no Tick other than Tick(0) has.  The constants of    *)
(* constants.rs are the tightest enclosures: FRAC_PI_2 = [Tick(3),         *)
(* Tick(5)] and PI = [Tick(7), Tick(9)].                                   *)

Tick(t) == [k |-> "tick", t |-> t]

FRAC_PI_2 == [inf |-> Tick(3), sup |-> Tick(5)]

PI == [inf |-> Tick(7), sup |-> Tick(9)]

\* unary minus of an angle, and of an interval of angles
ANeg(v) == Tick(-v.t)

aneg(X) == [inf |-> ANeg(X.sup), sup |-> ANeg(X.inf)]

\* f64::atan2(v, w) of two numbers (v is the ordinate): on the axes and at
\* infinity the f64 nearest 0, +-pi/2 (Tick(+-3)) or +-pi (Tick(+-7)), by
\* the sign bits; elsewhere the angle of the point (w, v), kept as a term
f64_atan2(v, w) ==
    CASE IsZero(v) /\ ~SignBit(w) -> Tick(0)
      [] IsZero(v) /\ SignBit(w)  -> IF v.z THEN Tick(-7) ELSE Tick(7)
      [] ~IsZero(v) /\ IsZero(w)  -> IF SignBit(v) THEN Tick(-3) ELSE Tick(3)
      [] ~IsZero(v) /\ is_finite(v) /\ w = INFINITY     -> Tick(0)
      [] ~IsZero(v) /\ is_finite(v) /\ w = NEG_INFINITY ->
            IF SignBit(v) THEN Tick(-7) ELSE Tick(7)
      [] ~is_finite(v) /\ is_finite(w) /\ ~IsZero(w) ->
            IF SignBit(v) THEN Tick(-3) ELSE Tick(3)
      [] OTHER -> [k |-> "atan2", y |-> v, x |-> w]

\* mutant: the arm N1_Z merged with the arm N1_P0
atan2_N1_Z_merged(a, b, c, d) == with_infsup_raw(f64_atan2(d, b), PI.sup)

\* the arm N1_Z: +pi only, whatever the sign bits of the zeros of y
atan2_N1_Z(a, b, c, d) == PI

\* self.atan2(rhs): y = self = [c, d], x = rhs = [a, b], by the class pair
\* of (x, y)
atan2(S, R) ==
    LET a == R.inf
        b == R.sup
        c == S.inf
        d == S.sup
        cl == classify2(R, S)
    IN  CASE cl[1] = "E" \/ cl[2] = "E" \/ cl = <<"Z", "Z">> -> EMPTY
          [] cl \in {<<"M", "M">>, <<"M", "N0">>, <<"N0", "M">>, <<"N0", "N0">>} ->
                with_infsup_raw(ANeg(PI.sup), PI.sup)
          [] cl = <<"P0", "P0">> -> with_infsup_raw(Tick(0), FRAC_PI_2.sup)
          [] cl \in {<<"P0", "P1">>, <<"P1", "P0">>, <<"P1", "P1">>, <<"P1", "Z">>,
                     <<"Z", "P1">>} ->
                with_infsup_raw(f64_atan2(c, b), f64_atan2(d, a))
          [] cl \in {<<"M", "P0">>, <<"M", "Z">>} -> with_infsup_raw(Tick(0), PI.sup)
          [] cl = <<"M", "P1">> -> with_infsup_raw(f64_atan2(c, b), f64_atan2(c, a))
          [] cl = <<"N0", "P0">> -> with_infsup_raw(FRAC_PI_2.inf, PI.sup)
          [] cl \in {<<"N0", "P1">>, <<"N1", "P1">>} ->
                with_infsup_raw(f64_atan2(d, b), f64_atan2(c, a))
          [] cl = <<"N1", "P0">> -> with_infsup_raw(f64_atan2(d, b), PI.sup)
          [] cl \in {<<"N1", "M">>, <<"N1", "N0">>} ->
                with_infsup_raw(ANeg(PI.sup), PI.sup)
          [] cl \in {<<"N0", "N1">>, <<"N1", "N1">>} ->
                with_infsup_raw(f64_atan2(d, a), f64_atan2(c, b))
          [] cl = <<"M", "N1">> -> with_infsup_raw(f64_atan2(d, a), f64_atan2(d, b))
          [] cl = <<"P0", "N0">> -> with_infsup_raw(ANeg(FRAC_PI_2.sup), Tick(0))
          [] cl \in {<<"P0", "N1">>, <<"P1", "N0">>, <<"P1", "N1">>, <<"Z", "N1">>} ->
                with_infsup_raw(f64_atan2(c, a), f64_atan2(d, b))
          [] cl \in {<<"P0", "M">>, <<"Z", "M">>} ->
                with_infsup_raw(ANeg(FRAC_PI_2.sup), FRAC_PI_2.sup)
          [] cl = <<"P1", "M">> -> with_infsup_raw(f64_atan2(c, a), f64_atan2(d, a))
          [] cl = <<"N0", "Z">> -> PI
          [] cl = <<"N1", "Z">> -> atan2_N1_Z(a, b, c, d)
          [] cl = <<"P0", "Z">> -> with_infsup_raw(Tick(0), Tick(0))
          [] cl = <<"Z", "N0">> -> aneg(FRAC_PI_2)
          [] cl = <<"Z", "P0">> -> FRAC_PI_2

(* elementary.rs: sin, cos, tan. An operand is an interval of angles: the *)
(* f64 values Tick(t), |t| <= MaxTick, and the infinities. In units of    *)
(* pi/8, Tick(4j + 1) is the least f64 above j * pi/2, Tick(4j + 3) the   *)
(* greatest f64 below (j + 1) * pi/2, Tick(4j + 2) a value between them,  *)
(* and Tick(0) is 0; no f64 but 0 is a multiple of pi/2.                  *)

TickOk(t) == t % 4 # 0 \/ t = 0

Angles ==
    { Tick(t) : t \in { u \in (-MaxTick)..MaxTick : TickOk(u) } }
        \cup { INFINITY, NEG_INFINITY }

IsTick(a) == a.k = "tick"

\* the order of f64 on the angles
ALe(a, b) ==
    \/ a = NEG_INFINITY
    \/ b = INFINITY
    \/ (IsTick(a) /\ IsTick(b) /\ a.t <= b.t)

AngleIntervals ==
    { with_infsup_raw(a, b) :
        <<a, b>> \in { p \in Angles \X Angles :
                         ALe(p[1], p[2]) /\ p[1] # INFINITY /\ p[2] # NEG_INFINITY } }
        \cup { EMPTY }

Num(i) == IF i = 0 THEN Zero(FALSE) ELSE Fin(i, 1)

\* (self / H).floor().inf for H = FRAC_PI_2 (m = 4) and H = PI (m = 8): the
\* quotient of the lower bound by a bound of H keeps the index of the bound,
\* but -5e-324 / PI.inf (Tick(-1)) is -0.0
trig_q_inf(a, m) ==
    IF ~IsTick(a) THEN a
    ELSE IF m = 8 /\ a.t = -1 THEN Zero(TRUE)
    ELSE Num(a.t \div m)

\* (self / H).floor().sup: the quotient of the greatest f64 below a multiple
\* of H by a bound of H is that multiple's index (FRAC_PI_2.inf /
\* FRAC_PI_2.inf = 1), but -5e-324 / FRAC_PI_2.sup stays below 0
trig_q_sup(b, m) ==
    IF ~IsTick(b) THEN b
    ELSE IF b.t % m = m - 1 /\ ~(m = 4 /\ b.t = -1) THEN Num((b.t \div m) + 1)
    ELSE Num(b.t \div m)

\* f64::rem_euclid(v, m) of an integral v
rem_euclid(v, m) == IF is_finite(v) THEN Num(v.n % m) ELSE NAN

\* 2.0 * (x / 2.0).floor() == x gives 0.0, anything else 1.0
rem_euclid_2(v) ==
    CASE is_nan(v) -> Num(1)
      [] ~is_finite(v) -> Num(0)
      [] OTHER -> Num(v.n % 2)

\* f64::sin of an angle: 1.0 and -1.0 next to an extremum, small next to a
\* zero, of the sign and the order of the sine
f64_sin(a) ==
    LET p == a.t % 16
    IN  CASE p = 0 -> Zero(FALSE)
          [] p \in {1, 7} -> Fin(1, 4)
          [] p \in {2, 6} -> Fin(1, 2)
          [] p \in {3, 4, 5} -> Fin(1, 1)
          [] p \in {9, 15} -> Fin(-1, 4)
          [] p \in {10, 14} -> Fin(-1, 2)
          [] OTHER -> Fin(-1, 1)

\* f64::cos of an angle
f64_cos(a) == f64_sin(Tick(a.t + 4))

\* f64::tan of an angle: large next to an asymptote
f64_tan(a) ==
    LET p == a.t % 8
    IN  CASE p = 0 -> Zero(FALSE)
          [] p = 1 -> Fin(1, 4)
          [] p = 2 -> Fin(1, 1)
          [] p = 3 -> Fin(4, 1)
          [] p = 5 -> Fin(-4, 1)
          [] p = 6 -> Fin(-1, 1)
          [] OTHER -> Fin(-1, 4)

\* n: 0.0 for a point, qb - qa otherwise
trig_n(a, b, qa, qb) == IF a = b THEN Zero(FALSE) ELSE FSub(qb, qa)

\* mutant: the third arm of sin for q = 0 reaches one index further
sin_inc_dec_wide(q, n) ==
    \/ (FEq(q, Num(0)) /\ FLt(n, Num(4)))
    \/ (FEq(q, Num(3)) /\ FLt(n, Num(4)))

\* the third arm of sin: increasing, then decreasing
sin_inc_dec(q, n) ==
    \/ (FEq(q, Num(0)) /\ FLt(n, Num(3)))
    \/ (FEq(q, Num(3)) /\ FLt(n, Num(4)))

sin(X) ==
    LET a == X.inf
        b == X.sup
        qa == trig_q_inf(a, 4)
        qb == trig_q_sup(b, 4)
        n == trig_n(a, b, qa, qb)
        q == rem_euclid(qa, 4)
    IN  IF is_empty(X) THEN X
        ELSE IF (FEq(q, Num(0)) /\ FLt(n, Num(1))) \/ (FEq(q, Num(3)) /\ FLt(n, Num(2)))
        THEN with_infsup_raw(f64_sin(a), f64_sin(b))
        ELSE IF (FEq(q, Num(1)) /\ FLt(n, Num(2))) \/ (FEq(q, Num(2)) /\ FLt(n, Num(1)))
        THEN with_infsup_raw(f64_sin(b), f64_sin(a))
        ELSE IF sin_inc_dec(q, n)
        THEN with_infsup_raw(FMin(f64_sin(a), f64_sin(b), TRUE), Num(1))
        ELSE IF (FEq(q, Num(1)) /\ FLt(n, Num(4))) \/ (FEq(q, Num(2)) /\ FLt(n, Num(3)))
        THEN with_infsup_raw(Num(-1), FMax(f64_sin(a), f64_sin(b), TRUE))
        ELSE with_infsup_raw(Num(-1), Num(1))

cos(X) ==
    LET a == X.inf
        b == X.sup
        qa == trig_q_inf(a, 8)
        qb == trig_q_sup(b, 8)
        n == trig_n(a, b, qa, qb)
        q == rem_euclid_2(qa)
    IN  IF is_empty(X) THEN X
        ELSE IF FEq(n, Num(0))
        THEN IF FEq(q, Num(0))
             THEN with_infsup_raw(f64_cos(b), f64_cos(a))
             ELSE with_infsup_raw(f64_cos(a), f64_cos(b))
        ELSE IF FLe(n, Num(1))
        THEN IF FEq(q, Num(0))
             THEN with_infsup_raw(Num(-1), FMax(f64_cos(a), f64_cos(b), TRUE))
             ELSE with_infsup_raw(FMin(f64_cos(a), f64_cos(b), TRUE), Num(1))
        ELSE with_infsup_raw(Num(-1), Num(1))

\* (with_infsup_raw(qb, qb) * FRAC_PI_2).inf: the greatest f64 below
\* qb * pi/2, and 0 for qb = 0
tan_cont_bound(qb) == IF IsZero(qb) THEN Tick(0) ELSE Tick(4 * qb.n - 1)

\* mutant: the bounded arm without the continuity check
tan_bounded_unchecked(q, n, cont) ==
    \/ (FEq(q, Num(0)) /\ (FLt(n, Num(1)) \/ FEq(n, Num(1))))
    \/ (FEq(q, Num(1)) /\ (FLt(n, Num(2)) \/ FEq(n, Num(2))))

tan_bounded(q, n, cont) ==
    \/ (FEq(q, Num(0)) /\ (FLt(n, Num(1)) \/ (FEq(n, Num(1)) /\ cont)))
    \/ (FEq(q, Num(1)) /\ (FLt(n, Num(2)) \/ (FEq(n, Num(2)) /\ cont)))

tan(X) ==
    LET a == X.inf
        b == X.sup
        qa == trig_q_inf(a, 4)
        qb == trig_q_sup(b, 4)
        n == trig_n(a, b, qa, qb)
        q == rem_euclid_2(qa)
        cont == qb # INFINITY /\ IsTick(b) /\ ALe(b, tan_cont_bound(qb))
    IN  IF is_empty(X) THEN X
        ELSE IF tan_bounded(q, n, cont)
        THEN with_infsup_raw(f64_tan(a), f64_tan(b))
        ELSE ENTIRE

-----------------------------------------------------------------------------
\* m^e for e >= 0
RECURSIVE IPow(_, _)
IPow(m, e) == IF e = 0 THEN 1 ELSE m * IPow(m, e - 1)

(* elementary.rs: pow. The bases of the model are 0, +oo and the powers of *)
(* two 2^s, -MaxLog <= s <= MaxLog, and their negations, so that t^k is   *)
(* 2^(s * k) with s * k rational; a value of f64::powf is kept as its     *)
(* sign and the binary logarithm e of its magnitude (e = -oo for 0).      *)

Pow2(s) == IF s >= 0 THEN Fin(IPow(2, s), 1) ELSE Fin(1, IPow(2, -s))

PowBases ==
    { Pow2(s) : s \in (-MaxLog)..MaxLog } \cup { FNeg(Pow2(s)) : s \in (-MaxLog)..MaxLog }
        \cup { Zero(FALSE), Zero(TRUE), INFINITY, NEG_INFINITY }

ILog2(m) == CHOOSE s \in 0..(MaxLog + 1) : IPow(2, s) = m

\* the binary logarithm of a base t >= 0 of the model
Log2(t) ==
    CASE IsZero(t) -> NEG_INFINITY
      [] ~is_finite(t) -> INFINITY
      [] OTHER -> IF t.d = 1 THEN Fin(ILog2(t.n), 1) ELSE Fin(-ILog2(t.d), 1)

Exp2(sg, e) == [k |-> "exp2", neg |-> sg, e |-> e]

IsOddInteger(k) == is_finite(k) /\ k.d = 1 /\ k.n % 2 = 1

\* f64::powf(t, k) for t >= 0 or t = -0.0 and k not NaN: 1 for k = 0 or
\* t = 1; (-0.0)^k is negative for an odd integer k
f64_powf(t, k) ==
    LET l == Log2(t)
        sg == IsZero(t) /\ SignBit(t) /\ IsOddInteger(k)
    IN  IF IsZero(k) \/ IsZero(l) THEN Exp2(FALSE, Zero(FALSE))
        ELSE Exp2(sg, FMul(l, k))

PIsZero(u) == u.e = NEG_INFINITY

\* the comparisons of f64 on the values of powf
PLt(u, v) ==
    CASE PIsZero(u) /\ PIsZero(v) -> FALSE
      [] u.neg /\ ~v.neg -> TRUE
      [] ~u.neg /\ v.neg -> FALSE
      [] ~u.neg /\ ~v.neg -> FLt(u.e, v.e)
      [] OTHER -> FLt(v.e, u.e)

PEq(u, v) == ~PLt(u, v) /\ ~PLt(v, u)

PLe(u, v) == ~PLt(v, u)

\* f64::min and f64::max on the values of powf; t decides a tie
PMin(u, v, t) == IF PLt(u, v) THEN u ELSE IF PLt(v, u) THEN v ELSE IF t THEN u ELSE v

PMax(u, v, t) == IF PLt(u, v) THEN v ELSE IF PLt(v, u) THEN u ELSE IF t THEN u ELSE v

One == Fin(1, 1)

\* self.pow(rhs); t1, t2 decide the ties of max and min in intersection,
\* t3, t4 those of min and max of the corner values
pow(X, R, t1, t2, t3, t4) ==
    LET DOM == [inf |-> Zero(FALSE), sup |-> INFINITY]
        xd == intersection(X, DOM, t1, t2)
        a == xd.inf
        b == xd.sup
        c == R.inf
        d == R.sup
    IN  IF either_empty(xd, R) THEN EMPTY
        ELSE IF FLe(d, Zero(FALSE))
        THEN IF FEq(b, Zero(FALSE)) THEN EMPTY
             ELSE IF FLt(b, One)
             THEN with_infsup_raw(f64_powf(b, d), f64_powf(a, c))
             ELSE IF FGt(a, One)
             THEN with_infsup_raw(f64_powf(b, c), f64_powf(a, d))
             ELSE with_infsup_raw(f64_powf(b, c), f64_powf(a, c))
        ELSE IF FGt(c, Zero(FALSE))
        THEN IF FLt(b, One)
             THEN with_infsup_raw(f64_powf(a, d), f64_powf(b, c))
             ELSE IF FGt(a, One)
             THEN with_infsup_raw(f64_powf(a, c), f64_powf(b, d))
             ELSE with_infsup_raw(f64_powf(a, d), f64_powf(b, d))
        ELSE IF FEq(b, Zero(FALSE)) THEN zero
             ELSE LET z_ac == f64_powf(a, c)
                      z_ad == f64_powf(a, d)
                      z_bc == f64_powf(b, c)
                      z_bd == f64_powf(b, d)
                  IN  with_infsup_raw(PMin(z_ad, z_bc, t3), PMax(z_ac, z_bd, t4))

-----------------------------------------------------------------------------
(* elementary.rs: powi *)

\* i32 % 2 == 0
IsEven(e) == e % 2 = 0

\* f64::powi(v, e) of a number v, exact on the finite values
f64_powi(v, e) ==
    LET ae == IAbs(e)
        negative == SignBit(v) /\ ~IsEven(e)
    IN  CASE e = 0 -> Fin(1, 1)
          [] e # 0 /\ ~is_finite(v) ->
                IF e > 0 THEN (IF negative THEN NEG_INFINITY ELSE INFINITY)
                ELSE Zero(negative)
          [] e # 0 /\ IsZero(v) ->
                IF e > 0 THEN Zero(negative)
                ELSE (IF negative THEN NEG_INFINITY ELSE INFINITY)
          [] OTHER ->
                LET pn == IPow(IAbs(v.n), ae)
                    pd == IPow(v.d, ae)
                    sg == IF negative THEN -1 ELSE 1
                IN  IF e > 0 THEN Fin(sg * pn, pd) ELSE Fin(sg * pd, pn)

\* mutant: the zeros of the bounds keep their sign bits
powi_neg_odd_raw(a, b, rhs) == with_infsup_raw(f64_powi(b, rhs), f64_powi(a, rhs))

\* the last branch for a negative odd exponent: a zero lower bound becomes
\* +0.0 and a zero upper bound -0.0 before the bounds are raised
powi_neg_odd(a, b, rhs) ==
    LET a1 == IF FEq(a, Zero(FALSE)) THEN Zero(FALSE) ELSE a
        b1 == IF FEq(b, Zero(FALSE)) THEN Zero(TRUE) ELSE b
    IN  with_infsup_raw(f64_powi(b1, rhs), f64_powi(a1, rhs))

\* self.powi(rhs); t1 decides a tie of f64::max in abs
powi(X, rhs, t1) ==
    LET a == X.inf
        b == X.sup
        ab == abs(X, t1)
    IN  IF is_empty(X) THEN X
        ELSE IF rhs < 0
        THEN IF FEq(a, Zero(FALSE)) /\ FEq(b, Zero(FALSE)) THEN EMPTY
             ELSE IF IsEven(rhs)
             THEN with_infsup_raw(f64_powi(ab.sup, rhs), f64_powi(ab.inf, rhs))
             ELSE IF FLt(a, Zero(FALSE)) /\ FGt(b, Zero(FALSE)) THEN ENTIRE
             ELSE powi_neg_odd(a, b, rhs)
        ELSE IF IsEven(rhs)
        THEN with_infsup_raw(f64_powi(ab.inf, rhs), f64_powi(ab.sup, rhs))
        ELSE with_infsup_raw(f64_powi(a, rhs), f64_powi(b, rhs))

-----------------------------------------------------------------------------
(* The state: two interval operands x and y; op names the last operation   *)
(* and r, st, ans, h, err hold what it returned (an interval, an           *)
(* overlapping state, a boolean, the hasher's input, an error kind); arg   *)
(* holds the pair of bounds last handed to the validating constructor.     *)

\* every value the validating constructor accepts, and the constant EMPTY
Intervals ==
    { with_infsup_raw(a, b) : <<a, b>> \in { p \in F64 \X F64 : try_from_ok(p[1], p[2]) } }
        \cup { EMPTY }

IRange(X) == InRange(X.inf) /\ InRange(X.sup)

NoRel == st' = "none" /\ ans' = FALSE /\ h' = <<>> /\ arg' = <<>> /\ err' = "none"

NoInt == r' = EMPTY /\ arg' = <<>> /\ err' = "none"

Init ==
    /\ x \in Intervals
    /\ y \in Intervals
    /\ op = "init"
    /\ r = EMPTY
    /\ st = "none"
    /\ ans = FALSE
    /\ h = <<>>
    /\ arg = <<>>
    /\ err = "none"

\* an operation returning an interval: r receives v
Returns(name, v) ==
    /\ IRange(v)
    /\ op' = name
    /\ r' = v
    /\ UNCHANGED <<x, y>>
    /\ NoRel

Neg == Returns("neg", neg(x))

Add == Returns("add", add(x, y))

Sub == Returns("sub", sub(x, y))

Mul == Returns("mul", mul(x, y))

Div == Returns("div", div(x, y))

AbsOp == \E t1 \in BOOLEAN : Returns("abs", abs(x, t1))

Max == \E t1, t2 \in BOOLEAN : Returns("max", max(x, y, t1, t2))

Min == \E t1, t2 \in BOOLEAN : Returns("min", min(x, y, t1, t2))

ConvexHull == \E t1, t2 \in BOOLEAN : Returns("convex_hull", convex_hull(x, y, t1, t2))

Intersection == \E t1, t2 \in BOOLEAN : Returns("intersection", intersection(x, y, t1, t2))

Ceil == Returns("ceil", ceil(x))

Floor == Returns("floor", floor(x))

Round == Returns("round", round(x))

Trunc == Returns("trunc", trunc(x))

Sign == Returns("sign", sign(x))

\* the caller hands the last result on as the first or the second operand
FeedX ==
    /\ op \notin {"init", "feed"}
    /\ x' = r
    /\ op' = "feed"
    /\ UNCHANGED <<y, r>>
    /\ NoRel

FeedY ==
    /\ op \notin {"init", "feed"}
    /\ y' = r
    /\ op' = "feed"
    /\ UNCHANGED <<x, r>>
    /\ NoRel

Next ==
    \/ Neg \/ Add \/ Sub \/ Mul \/ Div
    \/ AbsOp \/ Max \/ Min \/ ConvexHull \/ Intersection
    \/ Ceil \/ Floor \/ Round \/ Trunc \/ Sign
    \/ FeedX \/ FeedY

Spec == Init /\ [][Next]_vars

\* the relations: overlap, subset, eq and hash of the two operands
Overlap ==
    /\ op' = "overlap"
    /\ st' = overlap(x, y)
    /\ ans' = FALSE /\ h' = <<>>
    /\ UNCHANGED <<x, y>>
    /\ NoInt

Subset ==
    /\ op' = "subset"
    /\ ans' = subset(x, y)
    /\ st' = "none" /\ h' = <<>>
    /\ UNCHANGED <<x, y>>
    /\ NoInt

\* both operands are hashed and compared, as a hash table does with two keys
HashEq ==
    /\ op' = "hash"
    /\ h' = <<hash(x), hash(y)>>
    /\ ans' = eq(x, y)
    /\ st' = "none"
    /\ UNCHANGED <<x, y>>
    /\ NoInt

NextRel == Overlap \/ Subset \/ HashEq

SpecRel == Init /\ [][NextRel]_vars

\* the validating constructor: the constants, then try_from on any pair of
\* f64 bounds; an accepted pair becomes the operand x
InitCtor ==
    /\ x \in {EMPTY, ENTIRE, zero}
    /\ y = EMPTY
    /\ op = "init"
    /\ r = EMPTY
    /\ st = "none"
    /\ ans = FALSE
    /\ h = <<>>
    /\ arg = <<>>
    /\ err = "none"

TryFrom(a, b) ==
    LET res == try_from(a, b)
    IN  /\ op' = "try_from"
        /\ arg' = <<a, b>>
        /\ err' = res.kind
        /\ x' = IF res.ok THEN res.val ELSE x
        /\ r' = res.val
        /\ UNCHANGED <<y, st, ans, h>>

NextCtor == \E a, b \in F64 : TryFrom(a, b)

SpecCtor == InitCtor /\ [][NextCtor]_vars

\* a relation returning a boolean: ans receives v
Answers(name, v) ==
    /\ op' = name
    /\ ans' = v
    /\ st' = "none" /\ h' = <<>>
    /\ UNCHANGED <<x, y>>
    /\ NoInt

\* the order relations of boolean.rs on the two operands
Precedes == Answers("precedes", precedes(x, y))

Interior == Answers("interior", interior(x, y))

Less == Answers("less", less(x, y))

StrictLess == Answers("strict_less", strict_less(x, y))

NextOrd == Precedes \/ Interior \/ Less \/ StrictLess

SpecOrd == Init /\ [][NextOrd]_vars

\* the binary operations of set_op.rs and absmax.rs on the two operands
NextSet == Max \/ Min \/ ConvexHull \/ Intersection

SpecSet == Init /\ [][NextSet]_vars

\* the unary operations of absmax.rs and integer.rs on the operand x
InitUnary ==
    /\ x \in Intervals
    /\ y = EMPTY
    /\ op = "init"
    /\ r = EMPTY
    /\ st = "none"
    /\ ans = FALSE
    /\ h = <<>>
    /\ arg = <<>>
    /\ err = "none"

RoundTiesToEven == Returns("round_ties_to_even", round_ties_to_even(x))

NextUnary == AbsOp \/ Sign \/ Ceil \/ Floor \/ Round \/ RoundTiesToEven \/ Trunc

SpecUnary == InitUnary /\ [][NextUnary]_vars

\* the compound assignments: the operand x is replaced, y is the right-hand
\* side, passed by value
Assigns(name, v) ==
    /\ IRange(v)
    /\ op' = name
    /\ x' = v
    /\ UNCHANGED y
    /\ r' = EMPTY
    /\ NoRel

AddAssign == Assigns("add_assign", add_assign(x, y))

SubAssign == Assigns("sub_assign", sub_assign(x, y))

MulAssign == Assigns("mul_assign", mul_assign(x, y))

DivAssign == Assigns("div_assign", div_assign(x, y))

NextAssign == AddAssign \/ SubAssign \/ MulAssign \/ DivAssign

SpecAssign == Init /\ [][NextAssign]_vars

\* atan2 of the two operands: x is the ordinate (self), y the abscissa
Atan2 ==
    /\ op' = "atan2"
    /\ r' = atan2(x, y)
    /\ UNCHANGED <<x, y>>
    /\ NoRel

SpecAtan2 == Init /\ [][Atan2]_vars

\* powi of the operand x with any exponent of the model; arg holds the
\* exponent
Powi(e) ==
    \E t1 \in BOOLEAN :
        /\ op' = "powi"
        /\ r' = powi(x, e, t1)
        /\ arg' = <<e>>
        /\ st' = "none" /\ ans' = FALSE /\ h' = <<>> /\ err' = "none"
        /\ UNCHANGED <<x, y>>

NextPowi == \E e \in (-MaxExp)..MaxExp : Powi(e)

SpecPowi == InitUnary /\ [][NextPowi]_vars

\* the base of pow is an interval over the bases of the model, the exponent
\* any interval of the model
PowIntervals ==
    { with_infsup_raw(a, b) : <<a, b>> \in { p \in PowBases \X PowBases : try_from_ok(p[1], p[2]) } }
        \cup { EMPTY }

InitPow ==
    /\ x \in PowIntervals
    /\ y \in Intervals
    /\ op = "init"
    /\ r = EMPTY
    /\ st = "none"
    /\ ans = FALSE
    /\ h = <<>>
    /\ arg = <<>>
    /\ err = "none"

Pow ==
    \E t1, t2, t3, t4 \in BOOLEAN :
        /\ op' = "pow"
        /\ r' = pow(x, y, t1, t2, t3, t4)
        /\ UNCHANGED <<x, y>>
        /\ NoRel

SpecPow == InitPow /\ [][Pow]_vars

\* sin, cos and tan of an interval of angles
InitTrig ==
    /\ x \in AngleIntervals
    /\ y = EMPTY
    /\ op = "init"
    /\ r = EMPTY
    /\ st = "none"
    /\ ans = FALSE
    /\ h = <<>>
    /\ arg = <<>>
    /\ err = "none"

Trig(name, v) ==
    /\ op' = name
    /\ r' = v
    /\ UNCHANGED <<x, y>>
    /\ NoRel

Sin == Trig("sin", sin(x))

Cos == Trig("cos", cos(x))

Tan == Trig("tan", tan(x))

NextTrig == Sin \/ Cos \/ Tan

SpecTrig == InitTrig /\ [][NextTrig]_vars

\* the operands of the algebraic laws: the intervals of the model with
\* whole or infinite bounds
WholeIntervals ==
    { X \in Intervals : (is_finite(X.inf) => X.inf.d = 1) /\ (is_finite(X.sup) => X.sup.d = 1) }

\* two operands x, y and in arg two operands that contain them
InitIso ==
    /\ x \in WholeIntervals
    /\ y \in WholeIntervals
    /\ arg \in { p \in WholeIntervals \X WholeIntervals : subset(x, p[1]) /\ subset(y, p[2]) }
    /\ op = "init"
    /\ r = EMPTY
    /\ st = "none"
    /\ ans = FALSE
    /\ h = <<>>
    /\ err = "none"

\* r receives the result on x and y, arg[3] the result on arg[1] and arg[2]
Both(name, v, w) ==
    /\ op' = name
    /\ r' = v
    /\ arg' = <<arg[1], arg[2], w>>
    /\ st' = "none" /\ ans' = FALSE /\ h' = <<>> /\ err' = "none"
    /\ UNCHANGED <<x, y>>

IsoAdd == Both("add", add(x, y), add(arg[1], arg[2]))

IsoSub == Both("sub", sub(x, y), sub(arg[1], arg[2]))

IsoMul == Both("mul", mul(x, y), mul(arg[1], arg[2]))

IsoDiv == Both("div", div(x, y), div(arg[1], arg[2]))

NextIso == IsoAdd \/ IsoSub \/ IsoMul \/ IsoDiv

SpecIso == InitIso /\ [][NextIso]_vars

\* three operands x, y and arg[1] for the algebraic laws
InitLaws ==
    /\ x \in WholeIntervals
    /\ y \in WholeIntervals
    /\ arg \in { <<Z>> : Z \in WholeIntervals }
    /\ op = "init"
    /\ r = EMPTY
    /\ st = "none"
    /\ ans = FALSE
    /\ h = <<>>
    /\ err = "none"

\* r receives one side of a law, arg[2] the other
Law(name, v, w) ==
    /\ op' = name
    /\ r' = v
    /\ arg' = <<arg[1], w>>
    /\ st' = "none" /\ ans' = FALSE /\ h' = <<>> /\ err' = "none"
    /\ UNCHANGED <<x, y>>

\* x * (y + z) and x * y + x * z
Distribute == Law("distribute", mul(x, add(y, arg[1])), add(mul(x, y), mul(x, arg[1])))

\* x + y and y + x
CommuteAdd == Law("commute_add", add(x, y), add(y, x))

\* x * y and y * x
CommuteMul == Law("commute_mul", mul(x, y), mul(y, x))

\* x - y and x + (-y)
SubNeg == Law("sub_neg", sub(x, y), add(x, neg(y)))

NextLaws == Distribute \/ CommuteAdd \/ CommuteMul \/ SubNeg

SpecLaws == InitLaws /\ [][NextLaws]_vars

-----------------------------------------------------------------------------
(* Properties *)

Nonempty(X) == ~is_empty(X)

\* EMPTY, or a pair of ordered bounds with inf # +oo and sup # -oo
ValidInterval(X) ==
    \/ is_nan(X.inf) /\ is_nan(X.sup)
    \/ /\ ~is_nan(X.inf) /\ ~is_nan(X.sup)
       /\ ~FLt(X.sup, X.inf)
       /\ X.inf # INFINITY
       /\ X.sup # NEG_INFINITY

\* the interval [i, j] of two integers
I(i, j) == [inf |-> Fin(i, 1), sup |-> Fin(j, 1)]

IsPointZero(X) == IsZero(X.inf) /\ IsZero(X.sup)

IsMixed(X) == FLt(X.inf, Zero(FALSE)) /\ FLt(Zero(FALSE), X.sup)

\* the finite values of the model that are members of X
Samples(X) == { v \in Finite : contains(X, v) }

\* C1: every value an operation returns, and every operand it is handed, is
\* EMPTY (both bounds NaN) or has inf <= sup, inf # +oo, sup # -oo
C1_ValidityPreserved == ValidInterval(x) /\ ValidInterval(y) /\ ValidInterval(r)

\* [1, +oo] / [1, +oo] = [0, +oo]: no oo/oo is formed
C1_Witness ==
    /\ op = "div"
    /\ x = [inf |-> Fin(1, 1), sup |-> INFINITY]
    /\ y = x
    /\ r = [inf |-> Zero(FALSE), sup |-> INFINITY]

\* C2: +, -, * and / return an empty interval when either operand is empty,
\* and so does the negation of an empty interval
C2_EmptinessAbsorption ==
    /\ (op \in {"add", "sub", "mul", "div"} /\ either_empty(x, y)) => is_empty(r)
    /\ (op = "neg" /\ is_empty(x)) => is_empty(r)

C2_Witness == op = "mul" /\ is_empty(x) /\ y = zero /\ is_empty(r)

\* the product of two bounds, with 0 * (+-oo) = 0
CornerProduct(v, w) == IF IsZero(v) \/ IsZero(w) THEN Zero(FALSE) ELSE FMul(v, w)

Corners(X, Y) == { CornerProduct(v, w) : v \in {X.inf, X.sup}, w \in {Y.inf, Y.sup} }

\* C3: the product of two nonempty intervals is [min, max] of the products of
\* their bounds, encloses the product of any two members, and is the point 0
\* when an operand is [0, 0]
C3_MulExact ==
    (op = "mul" /\ Nonempty(x) /\ Nonempty(y)) =>
        /\ \E s \in Corners(x, y) : FEq(r.inf, s)
        /\ \E s \in Corners(x, y) : FEq(r.sup, s)
        /\ \A s \in Corners(x, y) : FLe(r.inf, s) /\ FLe(s, r.sup)
        /\ \A v \in Samples(x), w \in Samples(y) : contains(r, FMul(v, w))
        /\ (IsPointZero(x) \/ IsPointZero(y)) => IsPointZero(r)

\* [-1, 2] * [-1, 1] = [-2, 2]: both the min and the max are needed
C3_Witness == op = "mul" /\ x = I(-1, 2) /\ y = I(-1, 1) /\ r = I(-2, 2)

IsN(X) == FLt(X.inf, Zero(FALSE)) /\ FLe(X.sup, Zero(FALSE))

IsP(X) == FLe(Zero(FALSE), X.inf) /\ FLt(Zero(FALSE), X.sup)

IsN0(X) == FLt(X.inf, Zero(FALSE)) /\ IsZero(X.sup)

IsP0(X) == IsZero(X.inf) /\ FLt(Zero(FALSE), X.sup)

\* C4: the quotient of two nonempty intervals encloses v / w for any members
\* v, w with w # 0; a one-signed numerator over a denominator touching zero
\* on one side gives the half-infinite interval of the table
C4_DivEnclosure ==
    (op = "div" /\ Nonempty(x) /\ Nonempty(y)) =>
        /\ \A v \in Samples(x), w \in Samples(y) :
              ~IsZero(w) => contains(r, FDiv(v, w))
        /\ (IsN(x) /\ IsN0(y)) => (FEq(r.inf, FDiv(x.sup, y.inf)) /\ r.sup = INFINITY)
        /\ (IsN(x) /\ IsP0(y)) => (r.inf = NEG_INFINITY /\ FEq(r.sup, FDiv(x.sup, y.sup)))
        /\ (IsP(x) /\ IsN0(y)) => (r.inf = NEG_INFINITY /\ FEq(r.sup, FDiv(x.inf, y.inf)))
        /\ (IsP(x) /\ IsP0(y)) => (FEq(r.inf, FDiv(x.inf, y.sup)) /\ r.sup = INFINITY)

\* [1, 2] / [-1, 0] = [-oo, -1]
C4_Witness ==
    /\ op = "div"
    /\ x = I(1, 2)
    /\ y = I(-1, 0)
    /\ r = [inf |-> NEG_INFINITY, sup |-> Fin(-1, 1)]

\* C5: X / [0, 0] is EMPTY for every X; [0, 0] / Y is the point 0 for every
\* nonempty Y other than [0, 0]; X / Y is ENTIRE when Y is mixed and X is
\* nonempty and not [0, 0]
C5_DivDegenerate ==
    op = "div" =>
        /\ IsPointZero(y) => (is_nan(r.inf) /\ is_nan(r.sup))
        /\ (IsPointZero(x) /\ Nonempty(y) /\ ~IsPointZero(y)) => IsPointZero(r)
        /\ (IsMixed(y) /\ Nonempty(x) /\ ~IsPointZero(x)) => r = ENTIRE

\* [0, 0] / [-1, 1] = [0, 0]
C5_Witness == op = "div" /\ IsPointZero(x) /\ y = I(-1, 1) /\ IsPointZero(r)

\* C6: try_from((a, b)) is Ok([a, b]) exactly when neither bound is NaN,
\* a <= b, a # +oo and b # -oo, and Err(UndefinedOperation) otherwise; what
\* it accepts is nonempty and valid
C6_TryFrom ==
    op = "try_from" =>
        LET a == arg[1]
            c == arg[2]
            accepted == /\ ~is_nan(a) /\ ~is_nan(c)
                        /\ ~FLt(c, a)
                        /\ a # INFINITY
                        /\ c # NEG_INFINITY
        IN  /\ (err = "none") <=> accepted
            /\ err \in {"none", "UndefinedOperation"}
            /\ (err = "none") =>
                  /\ r.inf = a /\ r.sup = c /\ x = r
                  /\ Nonempty(r) /\ ValidInterval(r)

\* (+oo, +oo) is refused
C6_Witness ==
    op = "try_from" /\ arg = <<INFINITY, INFINITY>> /\ err = "UndefinedOperation"

\* C7: two intervals that compare equal feed the hasher the same input
C7_EqualImpliesSameHash == (op = "hash" /\ ans) => h[1] = h[2]

\* the row of the table in overlap.rs: the relations allowed between
\* a and c, a and d, b and c, b and d
Allen ==
    {"Before", "Meets", "Overlaps", "Starts", "ContainedBy", "Finishes", "Equal",
     "FinishedBy", "Contains", "StartedBy", "OverlappedBy", "MetBy", "After"}

Row(s) ==
    CASE s = "Before"       -> <<{"<"}, {"<"}, {"<"}, {"<"}>>
      [] s = "Meets"        -> <<{"<"}, {"<"}, {"="}, {"<"}>>
      [] s = "Overlaps"     -> <<{"<"}, {"<"}, {">"}, {"<"}>>
      [] s = "Starts"       -> <<{"="}, {"<"}, {"=", ">"}, {"<"}>>
      [] s = "ContainedBy"  -> <<{">"}, {"<"}, {">"}, {"<"}>>
      [] s = "Finishes"     -> <<{">"}, {"<", "="}, {">"}, {"="}>>
      [] s = "Equal"        -> <<{"="}, {"<", "="}, {"=", ">"}, {"="}>>
      [] s = "FinishedBy"   -> <<{"<"}, {"<"}, {"=", ">"}, {"="}>>
      [] s = "Contains"     -> <<{"<"}, {"<"}, {">"}, {">"}>>
      [] s = "StartedBy"    -> <<{"="}, {"<", "="}, {">"}, {">"}>>
      [] s = "OverlappedBy" -> <<{">"}, {"<"}, {">"}, {">"}>>
      [] s = "MetBy"        -> <<{">"}, {"="}, {">"}, {">"}>>
      [] s = "After"        -> <<{">"}, {">"}, {">"}, {">"}>>

Rel(v, w) == IF FLt(v, w) THEN "<" ELSE IF FLt(w, v) THEN ">" ELSE "="

RowMatches(s, X, Y) ==
    /\ Rel(X.inf, Y.inf) \in Row(s)[1]
    /\ Rel(X.inf, Y.sup) \in Row(s)[2]
    /\ Rel(X.sup, Y.inf) \in Row(s)[3]
    /\ Rel(X.sup, Y.sup) \in Row(s)[4]

\* C8: overlap returns BothEmpty, FirstEmpty or SecondEmpty exactly when
\* both, only the first or only the second operand is empty, and otherwise
\* the one Allen relation whose row of the table matches
C8_OverlapTable ==
    op = "overlap" =>
        /\ st \in OverlappingState
        /\ (st = "BothEmpty") <=> (is_empty(x) /\ is_empty(y))
        /\ (st = "FirstEmpty") <=> (is_empty(x) /\ Nonempty(y))
        /\ (st = "SecondEmpty") <=> (Nonempty(x) /\ is_empty(y))
        /\ (Nonempty(x) /\ Nonempty(y)) =>
              /\ st \in Allen
              /\ RowMatches(st, x, y)
              /\ \A s \in Allen : RowMatches(s, x, y) => s = st

\* [1, 2] against [2, 2] is FinishedBy
C8_Witness == op = "overlap" /\ x = I(1, 2) /\ y = I(2, 2) /\ st = "FinishedBy"

Inverse(s) ==
    CASE s = "Before"       -> "After"
      [] s = "After"        -> "Before"
      [] s = "Meets"        -> "MetBy"
      [] s = "MetBy"        -> "Meets"
      [] s = "Overlaps"     -> "OverlappedBy"
      [] s = "OverlappedBy" -> "Overlaps"
      [] s = "Starts"       -> "StartedBy"
      [] s = "StartedBy"    -> "Starts"
      [] s = "ContainedBy"  -> "Contains"
      [] s = "Contains"     -> "ContainedBy"
      [] s = "Finishes"     -> "FinishedBy"
      [] s = "FinishedBy"   -> "Finishes"
      [] s = "Equal"        -> "Equal"
      [] s = "FirstEmpty"   -> "SecondEmpty"
      [] s = "SecondEmpty"  -> "FirstEmpty"
      [] s = "BothEmpty"    -> "BothEmpty"

\* C9: overlap of the operands swapped is the inverse state
C9_OverlapInverse == op = "overlap" => overlap(y, x) = Inverse(st)

\* [1, 1] against [1, 2] is Starts, and [1, 2] against [1, 1] is StartedBy
C9_Witness ==
    /\ op = "overlap"
    /\ x = I(1, 1)
    /\ y = I(1, 2)
    /\ st = "Starts"
    /\ overlap(y, x) = "StartedBy"

\* C10: for nonempty operands, each is a subset of the other exactly when
\* they are equal; EMPTY is a subset of everything and nothing nonempty is a
\* subset of EMPTY
C10_SubsetAntisymmetric ==
    op = "subset" =>
        /\ (Nonempty(x) /\ Nonempty(y)) => ((ans /\ subset(y, x)) <=> eq(x, y))
        /\ is_empty(x) => ans
        /\ (Nonempty(x) /\ is_empty(y)) => ~ans

\* [-0.0, 1] and [+0.0, 1] are subsets of each other and equal
C10_Witness ==
    /\ op = "subset"
    /\ x = [inf |-> Zero(TRUE), sup |-> Fin(1, 1)]
    /\ y = [inf |-> Zero(FALSE), sup |-> Fin(1, 1)]
    /\ ans
    /\ subset(y, x)
    /\ eq(x, y)

\* C11: precedes holds in both directions exactly when an operand is empty
\* or the first operand is a singleton equal to the second
C11_PrecedesBothWays ==
    op = "precedes" =>
        ((ans /\ precedes(y, x)) <=>
            (is_empty(x) \/ is_empty(y) \/ (is_singleton(x) /\ eq(x, y))))

\* [1, 1] precedes [1, 1] in both directions
C11_Witness ==
    /\ op = "precedes"
    /\ x = I(1, 1)
    /\ y = I(1, 1)
    /\ ans
    /\ precedes(y, x)

\* v < w, or both are -oo
BelowOrBothNegInf(v, w) == FLt(v, w) \/ (v = NEG_INFINITY /\ w = NEG_INFINITY)

\* v < w, or both are +oo
BelowOrBothInf(v, w) == FLt(v, w) \/ (v = INFINITY /\ w = INFINITY)

PointMin(v, w) == IF FLt(w, v) THEN w ELSE v

PointMax(v, w) == IF FLt(v, w) THEN w ELSE v

\* C14: intersection is EMPTY when an operand is empty or max(a, c) >
\* min(b, d); otherwise it is [max(a, c), min(b, d)], a subset of both
\* operands containing every finite point of both; never inf > sup
C14_Intersection ==
    op = "intersection" =>
        /\ either_empty(x, y) => r = EMPTY
        /\ (Nonempty(x) /\ Nonempty(y)) =>
              LET lo == PointMax(x.inf, y.inf)
                  hi == PointMin(x.sup, y.sup)
              IN  IF FGt(lo, hi)
                  THEN r = EMPTY
                  ELSE /\ FEq(r.inf, lo) /\ FEq(r.sup, hi)
                       /\ subset(r, x) /\ subset(r, y)
                       /\ \A v \in Finite :
                             (contains(x, v) /\ contains(y, v)) => contains(r, v)
        /\ ~FGt(r.inf, r.sup)
        /\ ValidInterval(r)

\* [0, 1] and [1, 2] share the point 1
C14_Witness == op = "intersection" /\ x = I(0, 1) /\ y = I(1, 2) /\ r = I(1, 1)

\* C15: the convex hull with EMPTY is the other operand; of nonempty
\* operands it is [min(a, c), max(b, d)]; both operands are subsets of it,
\* and it is a subset of every interval that has both as subsets
C15_ConvexHull ==
    op = "convex_hull" =>
        /\ is_empty(x) => eq(r, y)
        /\ is_empty(y) => eq(r, x)
        /\ (Nonempty(x) /\ Nonempty(y)) =>
              /\ FEq(r.inf, PointMin(x.inf, y.inf))
              /\ FEq(r.sup, PointMax(x.sup, y.sup))
        /\ subset(x, r) /\ subset(y, r)
        /\ \A Z \in Intervals : (subset(x, Z) /\ subset(y, Z)) => subset(r, Z)

\* the hull of [-1, 0] and [1, 2] is [-1, 2]
C15_Witness == op = "convex_hull" /\ x = I(-1, 0) /\ y = I(1, 2) /\ r = I(-1, 2)

\* C16: min and max are EMPTY when an operand is empty; of nonempty operands
\* they are [min(a, c), min(b, d)] and [max(a, c), max(b, d)], whose members
\* are exactly the min (max) of a member of x and a member of y
C16_MinMax ==
    /\ (op \in {"min", "max"} /\ either_empty(x, y)) => r = EMPTY
    /\ (op = "min" /\ Nonempty(x) /\ Nonempty(y)) =>
          /\ FEq(r.inf, PointMin(x.inf, y.inf))
          /\ FEq(r.sup, PointMin(x.sup, y.sup))
          /\ \A v \in Samples(x), w \in Samples(y) : contains(r, PointMin(v, w))
          /\ \A u \in Samples(r) :
                \E v \in Samples(x), w \in Samples(y) : FEq(PointMin(v, w), u)
    /\ (op = "max" /\ Nonempty(x) /\ Nonempty(y)) =>
          /\ FEq(r.inf, PointMax(x.inf, y.inf))
          /\ FEq(r.sup, PointMax(x.sup, y.sup))
          /\ \A v \in Samples(x), w \in Samples(y) : contains(r, PointMax(v, w))
          /\ \A u \in Samples(r) :
                \E v \in Samples(x), w \in Samples(y) : FEq(PointMax(v, w), u)

\* the max of [-1, 0] and [1, 2] is [1, 2]
C16_Witness == op = "max" /\ x = I(-1, 0) /\ y = I(1, 2) /\ r = I(1, 2)

\* the interval [i/2, j/2] of two halves
Halves(i, j) == [inf |-> Fin(i, 2), sup |-> Fin(j, 2)]

\* |v| of a number
PointAbs(v) == IF FLt(v, Zero(FALSE)) THEN FNeg(v) ELSE v

\* C17: abs maps a mixed interval to [0, max(-inf, sup)], a nonpositive one
\* to [-sup, -inf], and returns EMPTY, [0, 0] and nonnegative intervals
\* unchanged; the members of the result are exactly the |v| of the members
\* of x, its lower bound is >= 0, and abs of the result is the result
C17_Abs ==
    op = "abs" =>
        /\ IsMixed(x) =>
              /\ IsZero(r.inf)
              /\ FEq(r.sup, PointMax(FNeg(x.inf), x.sup))
        /\ IsN(x) => (FEq(r.inf, FNeg(x.sup)) /\ FEq(r.sup, FNeg(x.inf)))
        /\ (is_empty(x) \/ FLe(Zero(FALSE), x.inf)) => r = x
        /\ Nonempty(x) =>
              /\ FLe(Zero(FALSE), r.inf)
              /\ \A v \in Samples(x) : contains(r, PointAbs(v))
              /\ \A u \in Samples(r) : \E v \in Samples(x) : FEq(PointAbs(v), u)
        /\ \A t \in BOOLEAN : eq(abs(r, t), r)

\* |[-2, 1]| = [0, 2]
C17_Witness == op = "abs" /\ x = I(-2, 1) /\ r = I(0, 2)

\* the sign of a number: the sign of zero is zero
PointSign(v) ==
    IF FLt(v, Zero(FALSE)) THEN Fin(-1, 1)
    ELSE IF FLt(Zero(FALSE), v) THEN Fin(1, 1)
    ELSE Zero(FALSE)

\* C18: sign of EMPTY is EMPTY; the sign of every member of a nonempty x
\* lies in sign(x), also when x touches zero at one end; [0, 0] gives
\* [0, 0], a strictly negative interval [-1, -1], a strictly positive one
\* [1, 1], and ENTIRE [-1, 1]
C18_SignEncloses ==
    op = "sign" =>
        /\ is_empty(x) => r = EMPTY
        /\ Nonempty(x) => \A v \in Samples(x) : contains(r, PointSign(v))
        /\ IsPointZero(x) => IsPointZero(r)
        /\ FLt(x.sup, Zero(FALSE)) => r = I(-1, -1)
        /\ FGt(x.inf, Zero(FALSE)) => r = I(1, 1)
        /\ x = ENTIRE => r = I(-1, 1)

\* the nearest integer of a finite n/d, the even one on a tie
PointRoundEven(v) ==
    IF v.k # "fin" THEN v
    ELSE LET f == v.n \div v.d
             rem2 == 2 * (v.n - f * v.d)
             i == IF rem2 < v.d THEN f
                  ELSE IF rem2 > v.d THEN f + 1
                  ELSE IF f % 2 = 0 THEN f ELSE f + 1
         IN  Integral(i, v)

\* C19: round_ties_to_even rounds each bound to the nearest integer, the
\* even one on a tie: [0.5, 1.5] gives [0, 2] and [-1.5, -0.5] gives
\* [-2, 0]; EMPTY gives EMPTY and ENTIRE gives ENTIRE
C19_RoundTiesToEven ==
    op = "round_ties_to_even" =>
        /\ is_empty(x) => r = EMPTY
        /\ x = ENTIRE => r = ENTIRE
        /\ Nonempty(x) =>
              /\ FEq(r.inf, PointRoundEven(x.inf))
              /\ FEq(r.sup, PointRoundEven(x.sup))
        /\ x = Halves(1, 3) => eq(r, I(0, 2))
        /\ x = Halves(-3, -1) => eq(r, I(-2, 0))

\* the integers a bound of the model can round to
Ints == (-(MaxNum + 1))..(MaxNum + 1)

\* the integer i is the floor, ceiling, truncation or rounding (ties away
\* from zero) of the finite v
IsFloorOf(i, v) == FLe(Fin(i, 1), v) /\ FLt(v, Fin(i + 1, 1))

IsCeilOf(i, v) == FLt(Fin(i - 1, 1), v) /\ FLe(v, Fin(i, 1))

IsTruncOf(i, v) == IF FLt(v, Zero(FALSE)) THEN IsCeilOf(i, v) ELSE IsFloorOf(i, v)

IsRoundOf(i, v) ==
    LET dist2 == IAbs(2 * v.n - 2 * i * v.d)
    IN  \/ dist2 < v.d
        \/ dist2 = v.d /\ IAbs(i) * v.d > IAbs(v.n)

Rounds(name, i, v) ==
    CASE name = "floor" -> IsFloorOf(i, v)
      [] name = "ceil"  -> IsCeilOf(i, v)
      [] name = "trunc" -> IsTruncOf(i, v)
      [] name = "round" -> IsRoundOf(i, v)

\* the bound rb is the rounding of the bound b; an infinite bound is kept
BoundRounded(name, b, rb) ==
    IF is_finite(b)
    THEN \E i \in Ints : Rounds(name, i, b) /\ FEq(rb, Fin(i, 1))
    ELSE rb = b

\* C20: ceil, floor, trunc and round map [a, b] to [f(a), f(b)] with f the
\* point rounding; the result is a valid interval enclosing f(v) for every
\* member v; EMPTY gives EMPTY and ENTIRE gives ENTIRE
C20_Rounding ==
    op \in {"ceil", "floor", "trunc", "round"} =>
        /\ is_empty(x) => r = EMPTY
        /\ x = ENTIRE => r = ENTIRE
        /\ ValidInterval(r)
        /\ Nonempty(x) =>
              /\ BoundRounded(op, x.inf, r.inf)
              /\ BoundRounded(op, x.sup, r.sup)
              /\ \A v \in Samples(x), i \in Ints :
                    Rounds(op, i, v) => contains(r, Fin(i, 1))
        /\ (op = "ceil" /\ x = Halves(1, 3)) => r = I(1, 2)
        /\ (op = "floor" /\ x = Halves(-3, -1)) => r = I(-2, -1)
        /\ (op = "trunc" /\ x = Halves(-3, -1)) => eq(r, I(-1, 0))
        /\ (op = "round" /\ x = Halves(1, 3)) => r = I(1, 2)
        /\ (op = "ceil" /\ x = Halves(-1, 1)) => eq(r, I(0, 1))
        /\ (op = "floor" /\ x = Halves(-1, 1)) => r = I(-1, 0)
        /\ (op = "round" /\ x = Halves(-1, 1)) => r = I(-1, 1)

\* [-2, -0.5] truncates to [-2, -0.0]
C20_Witness ==
    /\ op = "trunc"
    /\ x = Halves(-4, -1)
    /\ r = [inf |-> Fin(-2, 1), sup |-> Zero(TRUE)]

\* C21: after X op= Y the left operand is (old X) op Y and Y is unchanged;
\* for nonempty operands += gives [a + c, b + d] and -= gives [a - d, b - c]
C21_CompoundAssignment ==
    [][/\ op' \in {"add_assign", "sub_assign", "mul_assign", "div_assign"} => y' = y
       /\ op' = "add_assign" =>
             /\ x' = add(x, y)
             /\ (Nonempty(x) /\ Nonempty(y)) =>
                   (x'.inf = FAdd(x.inf, y.inf) /\ x'.sup = FAdd(x.sup, y.sup))
             /\ (x = I(0, 1) /\ y = I(0, 1)) => x' = I(0, 2)
       /\ op' = "sub_assign" =>
             /\ x' = sub(x, y)
             /\ (Nonempty(x) /\ Nonempty(y)) =>
                   (x'.inf = FSub(x.inf, y.sup) /\ x'.sup = FSub(x.sup, y.inf))
             /\ (x = I(0, 1) /\ y = I(0, 1)) => x' = I(-1, 1)
       /\ op' = "mul_assign" =>
             /\ x' = mul(x, y)
             /\ (x = I(1, 2) /\ y = Halves(1, 2)) => x' = Halves(1, 4)
       /\ op' = "div_assign" =>
             /\ x' = div(x, y)
             /\ (x = I(1, 2) /\ y = I(1, 2)) => x' = Halves(1, 4)
      ]_vars

\* [1, 2] /= [1, 2] has replaced the left operand by [0.5, 2]
C21_Witness == op = "div_assign" /\ x = Halves(1, 4) /\ y = I(1, 2)

\* C22: with the ordinate x and the abscissa y, atan2 is EMPTY when an
\* operand is empty or both are [0, 0]; for x = [0, 0] it is PI (and never
\* reaches down to -pi) when y is nonpositive and not [0, 0], the point 0 when
\* y = [0, b] with b > 0, and [0, sup(PI)] when y is mixed; for y = [0, 0] it
\* is FRAC_PI_2 when x = [0, d] with d > 0 and -FRAC_PI_2 when x = [c, 0]
\* with c < 0
C22_Atan2Axes ==
    op = "atan2" =>
        /\ (either_empty(x, y) \/ (IsPointZero(x) /\ IsPointZero(y))) => r = EMPTY
        /\ (IsPointZero(x) /\ IsN(y)) =>
              (r = PI /\ r.inf.k = "tick" /\ r.inf.t > 0)
        /\ (IsPointZero(x) /\ IsP0(y)) => r = with_infsup_raw(Tick(0), Tick(0))
        /\ (IsPointZero(x) /\ IsMixed(y)) => r = with_infsup_raw(Tick(0), PI.sup)
        /\ (IsPointZero(y) /\ IsP0(x)) => r = FRAC_PI_2
        /\ (IsPointZero(y) /\ IsN0(x)) => r = aneg(FRAC_PI_2)

\* [+0.0, -0.0].atan2([-2, -1]) is PI
C22_Witness ==
    /\ op = "atan2"
    /\ x = [inf |-> Zero(FALSE), sup |-> Zero(TRUE)]
    /\ y = I(-2, -1)
    /\ r = PI

\* the least and the greatest |v| of the members v of a nonempty X
MinAbs(X) ==
    IF FLe(X.inf, Zero(FALSE)) /\ FLe(Zero(FALSE), X.sup) THEN Zero(FALSE)
    ELSE PointMin(PointAbs(X.inf), PointAbs(X.sup))

MaxAbs(X) == PointMax(PointAbs(X.inf), PointAbs(X.sup))

\* C23: powi by the sign and the parity of the exponent n: EMPTY gives
\* EMPTY; n = 0 gives [1, 1]; n > 0 odd gives [inf^n, sup^n], n > 0 even
\* [m^n, M^n] with [m, M] = |X|, and both are the exact range; n < 0 gives
\* EMPTY for [0, 0], ENTIRE for odd n and a mixed X, [b^n, +oo] for odd n and
\* X = [0, b], [-oo, a^n] for odd n and X = [a, 0], and [M^n, m^n] for even
\* n, with sup +oo when |X| touches zero
C23_Powi ==
    op = "powi" =>
        LET n == arg[1]
            m == MinAbs(x)
            M == MaxAbs(x)
        IN  /\ is_empty(x) => r = EMPTY
            /\ (Nonempty(x) /\ n = 0) => r = I(1, 1)
            /\ (Nonempty(x) /\ n > 0 /\ ~IsEven(n)) =>
                  /\ FEq(r.inf, f64_powi(x.inf, n))
                  /\ FEq(r.sup, f64_powi(x.sup, n))
            /\ (Nonempty(x) /\ n > 0 /\ IsEven(n)) =>
                  /\ FEq(r.inf, f64_powi(m, n))
                  /\ FEq(r.sup, f64_powi(M, n))
                  /\ FLe(Zero(FALSE), r.inf)
            /\ (Nonempty(x) /\ n > 0) =>
                  /\ ValidInterval(r)
                  /\ \A v \in Samples(x) : contains(r, f64_powi(v, n))
                  /\ \A u \in {r.inf, r.sup} :
                        \E v \in Samples(x) \cup {x.inf, x.sup} : FEq(u, f64_powi(v, n))
            /\ (n < 0 /\ IsPointZero(x)) => r = EMPTY
            /\ (n < 0 /\ ~IsEven(n) /\ IsMixed(x)) => r = ENTIRE
            /\ (n < 0 /\ ~IsEven(n) /\ IsP0(x)) =>
                  (FEq(r.inf, f64_powi(x.sup, n)) /\ r.sup = INFINITY)
            /\ (n < 0 /\ ~IsEven(n) /\ IsN0(x)) =>
                  (r.inf = NEG_INFINITY /\ FEq(r.sup, f64_powi(x.inf, n)))
            /\ (n < 0 /\ IsEven(n) /\ Nonempty(x) /\ ~IsPointZero(x)) =>
                  /\ FEq(r.inf, f64_powi(M, n))
                  /\ FEq(r.sup, f64_powi(m, n))
                  /\ IsZero(m) => r.sup = INFINITY
            /\ (n < 0 /\ Nonempty(x) /\ ~IsPointZero(x)) => ValidInterval(r)

\* [-0.0, 2] to the power -1 is [0.5, +oo]
C23_Witness ==
    /\ op = "powi"
    /\ arg = <<-1>>
    /\ x = [inf |-> Zero(TRUE), sup |-> Fin(2, 1)]
    /\ r = [inf |-> Fin(1, 2), sup |-> INFINITY]

\* the values t^k at the four corners of the base X, cut to [0, +oo), and
\* the exponent Y
PowCorners(X, Y) ==
    LET lo == IF FLe(X.inf, Zero(FALSE)) THEN Zero(FALSE) ELSE X.inf
    IN  { f64_powf(t, k) : t \in {lo, X.sup}, k \in {Y.inf, Y.sup} }

IsZeroValue(u) == IF u.k = "exp2" THEN PIsZero(u) ELSE IsZero(u)

\* C24: with x the base cut to [0, +oo), pow returns EMPTY when x is empty,
\* when the exponent is empty, or when x is [0, 0] and the exponent has
\* sup <= 0; the point 0 when x is [0, 0] and the exponent has sup > 0;
\* otherwise the least and the greatest of t^k over the four corners
C24_PowDomain ==
    op = "pow" =>
        LET xempty == is_empty(x) \/ FLt(x.sup, Zero(FALSE))
            xzero == Nonempty(x) /\ IsZero(x.sup)
        IN  /\ (xempty \/ is_empty(y) \/ (xzero /\ FLe(y.sup, Zero(FALSE)))) => r = EMPTY
            /\ (xzero /\ Nonempty(y) /\ FGt(y.sup, Zero(FALSE))) =>
                  (IsZeroValue(r.inf) /\ IsZeroValue(r.sup))
            /\ (~xempty /\ ~xzero /\ Nonempty(y)) =>
                  /\ r.inf.k = "exp2" /\ r.sup.k = "exp2"
                  /\ \E u \in PowCorners(x, y) : PEq(r.inf, u)
                  /\ \E u \in PowCorners(x, y) : PEq(r.sup, u)
                  /\ \A u \in PowCorners(x, y) : PLe(r.inf, u) /\ PLe(u, r.sup)

\* the same with the lower bound -0.0 of the base set aside
C24_PowDomainPlusZero ==
    (op = "pow" /\ ~(Nonempty(x) /\ x.inf = Zero(TRUE))) => C24_PowDomain

\* the angles of the model in a nonempty X
TickSamples(X) ==
    { t \in (-MaxTick)..MaxTick : TickOk(t) /\ ALe(X.inf, Tick(t)) /\ ALe(Tick(t), X.sup) }

Bounded(X) == IsTick(X.inf) /\ IsTick(X.sup)

\* a nonempty X contains a point u * pi/8 with u = off modulo per; an
\* unbounded X contains one
HasPoint(X, off, per) ==
    ~Bounded(X) \/ \E u \in (X.inf.t)..(X.sup.t) : u % per = off

\* such a point lies strictly between the bounds of X
HasInnerPoint(X, off, per) ==
    ~Bounded(X) \/ \E u \in (X.inf.t + 1)..(X.sup.t - 1) : u % per = off

\* the computed indices of the bounds of X are floor(inf / h) and
\* floor(sup / h), h = m * pi/8
ExactIndices(X, m) ==
    /\ Bounded(X)
    /\ FEq(trig_q_inf(X.inf, m), Num(X.inf.t \div m))
    /\ FEq(trig_q_sup(X.sup, m), Num(X.sup.t \div m))

\* R encloses the values val[t] of a function of period 2 * pi on X, with
\* maxima at mx and minima at mn modulo 16; with exact indices of the
\* bounds for h = m * pi/8 it is [-1, 1] from nfull indices on and the
\* endpoint image on a monotonic branch
PeriodicEnclosure(X, R, val, m, mx, mn, nfull) ==
    /\ ValidInterval(R)
    /\ FLe(Num(-1), R.inf) /\ FLe(R.sup, Num(1))
    /\ \A t \in TickSamples(X) : FLe(R.inf, val[t]) /\ FLe(val[t], R.sup)
    /\ HasPoint(X, mx, 16) => FEq(R.sup, Num(1))
    /\ HasPoint(X, mn, 16) => FEq(R.inf, Num(-1))
    /\ ExactIndices(X, m) =>
          /\ ((X.sup.t \div m) - (X.inf.t \div m) >= nfull) =>
                 (FEq(R.inf, Num(-1)) /\ FEq(R.sup, Num(1)))
          /\ ~HasInnerPoint(X, mx % 8, 8) =>
                 /\ FEq(R.inf, PointMin(val[X.inf.t], val[X.sup.t]))
                 /\ FEq(R.sup, PointMax(val[X.inf.t], val[X.sup.t]))

\* C25: sin and cos enclose the function on X: sup = 1 when X contains a
\* maximum, inf = -1 when it contains a minimum, [-1, 1] when both (with
\* exact indices always for n >= 4, for cos n >= 2), the endpoint image on a
\* monotonic branch, and a subset of [-1, 1] always, unbounded X included
C25_SinCosEnclosure ==
    /\ (op \in {"sin", "cos"} /\ is_empty(x)) => r = EMPTY
    /\ (op = "sin" /\ Nonempty(x)) =>
          PeriodicEnclosure(x, r, [t \in (-MaxTick)..MaxTick |-> f64_sin(Tick(t))], 4, 4, 12, 4)
    /\ (op = "cos" /\ Nonempty(x)) =>
          PeriodicEnclosure(x, r, [t \in (-MaxTick)..MaxTick |-> f64_cos(Tick(t))], 8, 0, 8, 2)

\* sin of [pi/4, 3 pi/4], which contains the maximum at pi/2
C25_Witness ==
    /\ op = "sin"
    /\ x = [inf |-> Tick(2), sup |-> Tick(6)]
    /\ r = [inf |-> Fin(1, 2), sup |-> Fin(1, 1)]

\* a nonempty X lies between two consecutive asymptotes of the tangent
SingleBranch(X) == ~HasPoint(X, 4, 8)

Common(X) == is_finite(X.inf) /\ is_finite(X.sup) /\ FLe(X.inf, X.sup)

\* C26: tan is the endpoint image [tan(inf), tan(sup)], a common interval,
\* when X lies between two consecutive asymptotes, and ENTIRE otherwise; an
\* upper bound FRAC_PI_2.inf or -FRAC_PI_2.sup with the lower bound in the
\* same branch gives a common interval
C26_TanBranch ==
    op = "tan" =>
        /\ is_empty(x) => r = EMPTY
        /\ (Nonempty(x) /\ SingleBranch(x)) =>
              /\ r = with_infsup_raw(f64_tan(x.inf), f64_tan(x.sup))
              /\ Common(r)
              /\ \A t \in TickSamples(x) : contains(r, f64_tan(Tick(t)))
        /\ (Nonempty(x) /\ ~SingleBranch(x)) => r = ENTIRE
        /\ (Nonempty(x) /\ x.sup = FRAC_PI_2.inf /\ ALe(Tick(-3), x.inf)) => Common(r)
        /\ (Nonempty(x) /\ x.sup = ANeg(FRAC_PI_2.sup) /\ ALe(Tick(-11), x.inf)) => Common(r)

\* tan of [pi/4, FRAC_PI_2.inf]
C26_Witness ==
    /\ op = "tan"
    /\ x = [inf |-> Tick(2), sup |-> FRAC_PI_2.inf]
    /\ r = [inf |-> Fin(1, 1), sup |-> Fin(4, 1)]

\* C27: inclusion isotonicity of +, -, *, /: with x inside arg[1] and y
\* inside arg[2], the result on x and y is inside the result on arg[1] and
\* arg[2], also when an operand changes its class or is EMPTY
C27_InclusionIsotone ==
    (op \in {"add", "sub", "mul", "div"} /\ Len(arg) = 3) =>
        /\ subset(x, arg[1]) /\ subset(y, arg[2])
        /\ subset(r, arg[3])
        /\ is_empty(r) \/ ValidInterval(r)

\* [0, 0] * [1, 2] = [0, 0] inside [0, 1] * [-1, 2] = [-1, 2]
C27_Witness ==
    /\ op = "mul"
    /\ x = I(0, 0) /\ y = I(1, 2)
    /\ arg = <<I(0, 1), I(-1, 2), I(-1, 2)>>
    /\ r = I(0, 0)

\* C28: for nonempty X and Y, disjoint is overlap Before or After, subset
\* is overlap Starts, ContainedBy, Finishes or Equal, == is overlap Equal,
\* and strict_precedes is overlap Before
C28_OverlapAgrees ==
    (op = "overlap" /\ Nonempty(x) /\ Nonempty(y)) =>
        /\ disjoint(x, y) <=> st \in {"Before", "After"}
        /\ subset(x, y) <=> st \in {"Starts", "ContainedBy", "Finishes", "Equal"}
        /\ eq(x, y) <=> st = "Equal"
        /\ strict_precedes(x, y) <=> st = "Before"

\* [0, 1] starts [0, 2]: a subset, neither disjoint nor equal
C28_Witness ==
    /\ op = "overlap"
    /\ x = I(0, 1) /\ y = I(0, 2)
    /\ st = "Starts"
    /\ subset(x, y) /\ ~disjoint(x, y) /\ ~eq(x, y)

\* C29: X.intersection(Y) is empty exactly when X.disjoint(Y), empty
\* operands included; for nonempty operands exactly when sup(X) < inf(Y) or
\* sup(Y) < inf(X); intersection is commutative, and X.intersection(X) == X
C29_IntersectionDisjoint ==
    op = "intersection" =>
        /\ is_empty(r) <=> disjoint(x, y)
        /\ (Nonempty(x) /\ Nonempty(y)) =>
              (is_empty(r) <=> (FLt(x.sup, y.inf) \/ FLt(y.sup, x.inf)))
        /\ \A t1, t2 \in BOOLEAN : eq(r, intersection(y, x, t1, t2))
        /\ x = y => eq(r, x)

\* [0, 1] and [2, 2] are disjoint and their intersection is empty
C29_Witness ==
    /\ op = "intersection"
    /\ x = I(0, 1) /\ y = I(2, 2)
    /\ is_empty(r) /\ disjoint(x, y)

\* C30: for nonempty X, Y, Z, unbounded ones included, X * (Y + Z) is a
\* subset of X * Y + X * Z, and equal to it when X is a singleton;
\* X + Y == Y + X, X * Y == Y * X and X - Y == X + (-Y)
C30_SubDistributive ==
    (Len(arg) = 2 /\ Nonempty(x) /\ Nonempty(y) /\ Nonempty(arg[1])) =>
        /\ op = "distribute" =>
              /\ subset(r, arg[2])
              /\ ValidInterval(r) /\ ValidInterval(arg[2])
              /\ FEq(x.inf, x.sup) => eq(r, arg[2])
        /\ op \in {"commute_add", "commute_mul", "sub_neg"} =>
              (eq(r, arg[2]) /\ ValidInterval(r))

\* [-1, 1] * ([1, 1] + [-1, -1]) = [0, 0], strictly inside
\* [-1, 1] * [1, 1] + [-1, 1] * [-1, -1] = [-2, 2]
C30_Witness ==
    /\ op = "distribute"
    /\ x = I(-1, 1) /\ y = I(1, 1)
    /\ arg = <<I(-1, -1), I(-2, 2)>>
    /\ r = I(0, 0)

====
